---------------------------- MODULE Spec2Model ----------------------------
(***************************************************************************)
(* A model of the DataStore class of @rowanmanning/data-store: a record of *)
(* normalised property names and values, read and written through get,     *)
(* set and serialize, which dispatch to get<Name>, set<Name> and            *)
(* validate<Name> methods when the instance has them.                       *)
(*                                                                         *)
(* Encoding of JavaScript values:                                          *)
(*   - the characters of a string are a sequence of TLA+ strings of        *)
(*     length one: "a_b" is <<"a", "_", "b">>;                            *)
(*   - the entries of an object are a sequence of <<key, value>> pairs     *)
(*     with distinct keys, in insertion order (the order of Object.keys    *)
(*     and Object.entries);                                                *)
(*   - an argument whose type the code tests is a record of its type, its  *)
(*     characters (a string) and its entries (an object);                  *)
(*   - a value stored under a property is opaque: a sequence holding one   *)
(*     tag, e.g. <<"number 1">>.                                           *)
(***************************************************************************)
EXTENDS Integers, Sequences, FiniteSets

(***************************************************************************)
(* Characters and strings                                                  *)
(***************************************************************************)
Lower == {"a", "b", "c"}
Upper == {"A", "B", "C"}
Digit == {"0", "1"}
Alnum == Lower \cup Upper \cup Digit
Char == Alnum \cup {"_", "-"}

toLowerCase(c) ==
    CASE c = "A" -> "a"
      [] c = "B" -> "b"
      [] c = "C" -> "c"
      [] OTHER -> c

toUpperCase(c) ==
    CASE c = "a" -> "A"
      [] c = "b" -> "B"
      [] c = "c" -> "C"
      [] OTHER -> c

RECURSIVE Concat(_)
Concat(parts) ==
    IF parts = <<>> THEN <<>> ELSE Head(parts) \o Concat(Tail(parts))

(***************************************************************************)
(* The varname library (camelback, camelcase, underscore).  A name is cut  *)
(* into words at every run of characters that are not letters or digits,   *)
(* before a capital that follows a lower-case letter or a digit, and        *)
(* before the last capital of a run of capitals that a lower-case letter    *)
(* follows; the words are lower-cased.                                     *)
(***************************************************************************)
IsWordStart(s, i) ==
    /\ i > 1
    /\ s[i] \in Upper
    /\ \/ s[i - 1] \in Lower \cup Digit
       \/ /\ s[i - 1] \in Upper \cup Digit
          /\ i < Len(s)
          /\ s[i + 1] \in Lower

RECURSIVE SplitFrom(_, _, _, _)
SplitFrom(s, i, word, words) ==
    LET flushed == IF word = <<>> THEN words ELSE Append(words, word)
    IN  IF i > Len(s) THEN flushed
        ELSE IF s[i] \notin Alnum THEN SplitFrom(s, i + 1, <<>>, flushed)
        ELSE IF IsWordStart(s, i)
             THEN SplitFrom(s, i + 1, <<toLowerCase(s[i])>>, flushed)
        ELSE SplitFrom(s, i + 1, Append(word, toLowerCase(s[i])), words)

\* ''.split(/\s+/) is [''], so a name without letters or digits has one empty word
split(s) ==
    LET words == SplitFrom(s, 1, <<>>, <<>>)
    IN  IF words = <<>> THEN << <<>> >> ELSE words

titleCase(word) ==
    IF word = <<>> THEN <<>> ELSE <<toUpperCase(Head(word))>> \o Tail(word)

camelcase(s) ==
    LET words == split(s)
    IN  Concat([i \in DOMAIN words |-> titleCase(words[i])])

camelback(s) ==
    LET words == split(s)
    IN  Head(words) \o Concat([i \in DOMAIN Tail(words) |-> titleCase(Tail(words)[i])])

underscore(s) ==
    LET words == split(s)
    IN  Concat([i \in DOMAIN words |->
                  IF i = 1 THEN words[i] ELSE <<"_">> \o words[i]])


(***************************************************************************)
(* Objects: sequences of <<key, value>> pairs in insertion order           *)
(***************************************************************************)
Undefined == <<"undefined">>

EmptyObject == <<>>

HasKey(obj, key) == \E i \in DOMAIN obj : obj[i][1] = key

\* obj[key]
Read(obj, key) ==
    IF HasKey(obj, key)
    THEN obj[CHOOSE i \in DOMAIN obj : obj[i][1] = key][2]
    ELSE Undefined

Write_Appends(obj, key, value) == Append(obj, <<key, value>>)

\* obj[key] = value: an existing key keeps its place, a new key comes last
Write(obj, key, value) ==
    IF HasKey(obj, key)
    THEN [i \in DOMAIN obj |-> IF obj[i][1] = key THEN <<key, value>> ELSE obj[i]]
    ELSE Append(obj, <<key, value>>)

\* Object.keys(obj)
Keys(obj) == [i \in DOMAIN obj |-> obj[i][1]]

\* array.includes(item)
Includes(array, item) == \E i \in DOMAIN array : array[i] = item

(***************************************************************************)
(* Arguments: the type of the argument, the characters of a string and    *)
(* the entries of an object                                                *)
(***************************************************************************)
String(chars) == [type |-> "string", chars |-> chars, entries |-> <<>>]
PlainObject(entries) == [type |-> "object", chars |-> <<>>, entries |-> entries]
NotAnObject(type) == [type |-> type, chars |-> <<>>, entries |-> <<>>]

\* an argument that is undefined, or not given
NoArg == NotAnObject("undefined")

\* typeof x === 'string'
IsString(x) == x.type = "string"

\* typeof x !== 'object' || Array.isArray(x) || x === null
IsNotObject(x) == x.type \notin {"object", "DataStore"}

(***************************************************************************)
(* Errors and the outcome of a call                                        *)
(***************************************************************************)
NoError ==
    [name |-> "none", message |-> <<>>, details |-> NoArg, code |-> "undefined",
     validationErrors |-> <<>>]

TypeError(message) ==
    [name |-> "TypeError", message |-> message, details |-> NoArg, code |-> "undefined",
     validationErrors |-> <<>>]

Error(message) ==
    [name |-> "Error", message |-> message, details |-> NoArg, code |-> "undefined",
     validationErrors |-> <<>>]

ValidationError_DropsDetails(message, details, code) ==
    [name |-> "ValidationError",
     message |-> message,
     details |-> PlainObject(EmptyObject),
     code |-> IF code = "undefined" THEN "PROPERTY_VALIDATION" ELSE code,
     validationErrors |-> <<>>]

\* new ValidationError(message, details = {}, code = 'PROPERTY_VALIDATION'):
\* a default stands in for an argument that is undefined
ValidationError(message, details, code) ==
    [name |-> "ValidationError",
     message |-> message,
     details |-> IF details.type = "undefined" THEN PlainObject(EmptyObject) ELSE details,
     code |-> IF code = "undefined" THEN "PROPERTY_VALIDATION" ELSE code,
     validationErrors |-> <<>>]

\* `${n}` for a small n
ToString(n) == <<"0", "1", "2", "3", "4", "5", "6", "7", "8", "9">>[n + 1]

Filter_KeepsAll(errors) == errors

\* validationErrors.filter(error => error instanceof ValidationError)
RECURSIVE Filter(_)
Filter(errors) ==
    IF errors = <<>> THEN <<>>
    ELSE IF Head(errors).name = "ValidationError"
         THEN <<Head(errors)>> \o Filter(Tail(errors))
         ELSE Filter(Tail(errors))

\* new MultipleValidationError(validationErrors)
MultipleValidationError(validationErrors) ==
    [name |-> "MultipleValidationError",
     message |-> <<ToString(Len(validationErrors)), " validation errors">>,
     details |-> NoArg,
     code |-> "undefined",
     validationErrors |-> Filter(validationErrors)]

\* what a call gives: a value, an object (its entries) or an error thrown
Return(value) ==
    [kind |-> "return", value |-> value, object |-> EmptyObject, error |-> NoError]
ReturnObject(entries) ==
    [kind |-> "return object", value |-> Undefined, object |-> entries, error |-> NoError]
Throw(error) ==
    [kind |-> "throw", value |-> Undefined, object |-> EmptyObject, error |-> error]

\* the state of a store after a call, what the call gave, and the calls it made
Result(data, out, calls) == [data |-> data, out |-> out, calls |-> calls]

\* a result, after the calls made before it
After(calls, result) == Result(result.data, result.out, calls \o result.calls)

CallOf(fn, args) == [fn |-> fn, args |-> args]


(***************************************************************************)
(* The inputs                                                              *)
(***************************************************************************)
\* the longest object given to set(properties) or to the constructor
MaxBatch == 2

\* spellings of property names: a_b and aB are one property (aB); a_bC is
\* stored as aBC; "_" has no letters at all
PropertyNames ==
    { <<"a", "_", "b">>, <<"a", "B">>, <<"a", "_", "b", "C">>, <<"_">> }

\* the names that are keys of the objects given to set and to the constructor
EntryNames == { <<"a", "_", "b">>, <<"a", "B">>, <<"a", "_", "b", "C">> }

Values == { <<"number 1">>, <<"number 2">> }

\* the values the validator of the model accepts
ValidValues == { <<"number 1">> }

Strings == { String(p) : p \in PropertyNames }

\* arguments that are neither a string nor an object: null, 123, []
Others == { NotAnObject("null"), NotAnObject("number"), NotAnObject("array") }

RECURSIVE EntriesOf(_)
EntriesOf(n) ==
    IF n = 0 THEN { <<>> }
    ELSE LET shorter == EntriesOf(n - 1)
         IN  shorter \cup
             { Append(e, <<p, v>>) :
                 e \in { x \in shorter : Len(x) = n - 1 },
                 p \in EntryNames, v \in Values }

\* the keys of an object are distinct
Objects ==
    { PlainObject(e) :
        e \in { x \in EntriesOf(MaxBatch) :
                  \A i, j \in DOMAIN x : x[i][1] = x[j][1] => i = j } }

Messages == { <<"mock message">> }
Details == { NoArg, PlainObject(<< << <<"mockDetails">>, <<"true">> >> >>) }

\* every name the calls of the model normalise: the spellings, the keys they are
\* stored under and the names those are serialized under
RECURSIVE Closure(_)
Closure(names) ==
    LET more == names \cup { camelback(n) : n \in names }
                      \cup { underscore(n) : n \in names }
    IN  IF more = names THEN names ELSE Closure(more)

KnownNames == Closure(PropertyNames)

\* varname.camelback, varname.camelcase and varname.underscore on those names
Camelback == [n \in KnownNames |-> camelback(n)]
Camelcase == [n \in KnownNames |-> camelcase(n)]
Underscore == [n \in KnownNames |-> underscore(n)]

(***************************************************************************)
(* The class: its static lists and its normalisation; the methods found on *)
(* an instance by name; the store                                          *)
(***************************************************************************)
VARIABLES
    data,                   \* this.data
    methods,                \* the get<Name>, set<Name>, validate<Name> methods of the class
    allowedProperties,      \* static allowedProperties (NotSet when the class has none)
    disallowedProperties,   \* static disallowedProperties (NotSet when the class has none)
    serialization,          \* how the class normalises names for serialization
    last,                   \* the latest call: its arguments, this.data before it,
                            \* its outcome and the calls it made
    errors,                 \* the errors a caller has caught and collected
    aggregate,              \* the MultipleValidationError made from them, if any
    assigned,               \* the latest assignment to a property of the instance:
                            \* its name, the value assigned and the value before
    promises,               \* the promises made by the calls of the asynchronous variant
    stores                  \* several stores: the objects that exist and, for each
                            \* store, which of them its this.data is

vars ==
    <<data, methods, allowedProperties, disallowedProperties, serialization, last,
      errors, aggregate, assigned, promises, stores>>

NotSet == << <<"undefined">> >>

\* this.constructor.name
ClassName == <<"DataStore">>

\* static normalizePropertyForStorage(property)
normalizePropertyForStorage(property) == Camelback[property]

\* static normalizePropertyForSerialization(property): the property as it is, or
\* varname.underscore(property) in a class that reimplements it (README)
normalizePropertyForSerialization(property) ==
    IF serialization = "underscore" THEN Underscore[property] ELSE property

isAllowedProperty_IgnoresAllowed(normalizedProperty) ==
    IF allowedProperties = NotSet /\ disallowedProperties = NotSet THEN TRUE
    ELSE IF disallowedProperties # NotSet
         THEN ~Includes(disallowedProperties, normalizedProperty)
    ELSE Includes(allowedProperties, normalizedProperty)

isAllowedProperty_IgnoresDisallowed(normalizedProperty) ==
    IF allowedProperties = NotSet /\ disallowedProperties = NotSet THEN TRUE
    ELSE IF allowedProperties # NotSet
         THEN Includes(allowedProperties, normalizedProperty)
    ELSE ~Includes(disallowedProperties, normalizedProperty)

\* static isAllowedProperty(normalizedProperty)
isAllowedProperty(normalizedProperty) ==
    IF allowedProperties = NotSet /\ disallowedProperties = NotSet THEN TRUE
    ELSE IF allowedProperties # NotSet /\ ~Includes(allowedProperties, normalizedProperty)
         THEN FALSE
    ELSE IF disallowedProperties # NotSet /\ Includes(disallowedProperties, normalizedProperty)
         THEN FALSE
    ELSE TRUE

(***************************************************************************)
(* Methods looked up by name.  The model lets the property aB have a       *)
(* getter, a setter and a validator (getAB, setAB, validateAB); every      *)
(* other name is found on DataStore.prototype or not at all.               *)
(***************************************************************************)
OverriddenKey == <<"a", "B">>

GetterName == <<"get", "A", "B">>
SetterName == <<"set", "A", "B">>
ValidatorName == <<"validate", "A", "B">>

MethodNames == { GetterName, SetterName, ValidatorName }

\* the methods of DataStore.prototype
PrototypeMethods ==
    { <<"get">>, <<"set">>, <<"_setOne">>, <<"_setMany">>, <<"invalidate">>,
      <<"serialize">>, <<"toJSON">> }

\* `get${varname.camelcase(property)}`, and so for set and validate
MethodName(prefix, property) == <<prefix>> \o Camelcase[property.chars]

Lookup_BeforeAssignment(name) ==
    IF name = assigned.name /\ assigned.was # "undefined" THEN assigned.was
    ELSE IF name \in DOMAIN methods /\ methods[name] # "undefined" /\ name # assigned.name
         THEN methods[name]
    ELSE IF name \in PrototypeMethods THEN "prototype"
    ELSE "undefined"

\* this[name]
Lookup(name) ==
    IF name \in DOMAIN methods /\ methods[name] # "undefined" THEN methods[name]
    ELSE IF name \in PrototypeMethods THEN "prototype"
    ELSE "undefined"

HasFunction_AnyValue(name) == Lookup(name) # "undefined"

\* this[name] && typeof this[name] === 'function'
HasFunction(name) == Lookup(name) \notin { "undefined", "not a function" }

\* this[name](...args), for the functions of the model:
\*   getScientificName  returns a string made from this.data.aB (README, Getting properties)
\*   mock setter        returns 'mock setter return' and stores nothing (unit tests)
\*   validateColor      throws a ValidationError unless the value is valid (README, Validators)
\*   mock validator     throws an Error (unit tests)
\*   get, from the prototype, called without a property: the property is undefined
\*   set, from the prototype, called with a value alone: _setMany(value), and the
\*     values of the model are not objects
Invoke(d, name, args) ==
    Result(d,
           CASE Lookup(name) = "getScientificName" ->
                  Return(<<"getter">> \o Read(d, OverriddenKey))
             [] Lookup(name) = "mock setter" -> Return(<<"mock setter return">>)
             [] Lookup(name) = "validateColor" ->
                  IF args[1] \in ValidValues THEN Return(Undefined)
                  ELSE Throw(ValidationError(<<"Invalid color">>, NoArg, "undefined"))
             [] Lookup(name) = "mock validator" ->
                  Throw(Error(<<"mock validation error">>))
             [] Lookup(name) = "prototype" /\ name = <<"get">> ->
                  Throw(TypeError(<<"property name must be a string">>))
             [] Lookup(name) = "prototype" /\ name = <<"set">> ->
                  Throw(TypeError(<<"properties must be an object">>))
             [] OTHER -> Return(Undefined),
           <<CallOf(name, args)>>)

(***************************************************************************)
(* The methods of an instance.  Each gives the data of the store after the *)
(* call, what the call returned or threw, and the calls it made.           *)
(***************************************************************************)
get_ReadsData(d, property) ==
    IF ~IsString(property)
    THEN Result(d, Throw(TypeError(<<"property name must be a string">>)), <<>>)
    ELSE Result(d, Return(Read(d, normalizePropertyForStorage(property.chars))), <<>>)

get_PropertyAsGiven(d, property) ==
    IF ~IsString(property)
    THEN Result(d, Throw(TypeError(<<"property name must be a string">>)), <<>>)
    ELSE IF HasFunction(MethodName("get", property))
         THEN Invoke(d, MethodName("get", property), <<>>)
    ELSE Result(d, Return(Read(d, property.chars)), <<>>)

\* get(property)
get(d, property) ==
    IF ~IsString(property)
    THEN Result(d, Throw(TypeError(<<"property name must be a string">>)), <<>>)
    ELSE IF HasFunction(MethodName("get", property))
         THEN Invoke(d, MethodName("get", property), <<>>)
    ELSE Result(d, Return(Read(d, normalizePropertyForStorage(property.chars))), <<>>)

\* invalidate(message, details)
invalidate(d, message, details) ==
    Result(d, Throw(ValidationError(message, details, "undefined")), <<>>)

\* _setOne, the write: this.data[normalizedProperty] = value; return value
Store(d, normalizedProperty, value) ==
    Result(Write(d, normalizedProperty, value), Return(value), <<>>)

\* _setOne, the validator: called when the instance has a function validate<Name>
Validate(d, property, value) ==
    IF HasFunction(MethodName("validate", property))
    THEN Invoke(d, MethodName("validate", property), <<value>>)
    ELSE Result(d, Return(Undefined), <<>>)

\* the outcome of a call, on other data
Wrote(result, d) == Result(d, result.out, result.calls)

SetOrStore_PropertyAsGiven(d, property, value) ==
    IF HasFunction(MethodName("set", property))
    THEN Invoke(d, MethodName("set", property), <<value>>)
    ELSE Store(d, property.chars, value)

SetOrStore_AlsoWrites(d, property, value) ==
    IF HasFunction(MethodName("set", property))
    THEN Wrote(Invoke(d, MethodName("set", property), <<value>>),
               Write(d, normalizePropertyForStorage(property.chars), value))
    ELSE Store(d, normalizePropertyForStorage(property.chars), value)

\* _setOne, after the validator: the setter set<Name> when the instance has one,
\* the write otherwise
SetOrStore(d, property, value) ==
    IF HasFunction(MethodName("set", property))
    THEN Invoke(d, MethodName("set", property), <<value>>)
    ELSE Store(d, normalizePropertyForStorage(property.chars), value)

Validated_IgnoresThrow(property, value, validation) ==
    After(validation.calls, SetOrStore(validation.data, property, value))

\* _setOne, from the validator on: a validator that throws ends the call
Validated(property, value, validation) ==
    IF validation.out.kind = "throw" THEN validation
    ELSE After(validation.calls, SetOrStore(validation.data, property, value))

\* `${this.constructor.name}.${normalizedProperty} is not an allowed property name`
NotAllowedMessage(normalizedProperty) ==
    ClassName \o <<".">> \o normalizedProperty \o <<" is not an allowed property name">>

_setOne_ValidatesFirst(d, property, value) ==
    IF ~IsString(property)
    THEN Result(d, Throw(TypeError(<<"property name must be a string">>)), <<>>)
    ELSE IF Validate(d, property, value).out.kind = "throw"
         THEN Validate(d, property, value)
    ELSE After(Validate(d, property, value).calls
                   \o <<CallOf(<<"isAllowedProperty">>,
                               <<normalizePropertyForStorage(property.chars)>>)>>,
               IF ~isAllowedProperty(normalizePropertyForStorage(property.chars))
               THEN invalidate(d,
                               NotAllowedMessage(normalizePropertyForStorage(property.chars)),
                               NoArg)
               ELSE SetOrStore(d, property, value))

\* _setOne(property, value)
_setOne(d, property, value) ==
    IF ~IsString(property)
    THEN Result(d, Throw(TypeError(<<"property name must be a string">>)), <<>>)
    ELSE After(<<CallOf(<<"isAllowedProperty">>,
                        <<normalizePropertyForStorage(property.chars)>>)>>,
               IF ~isAllowedProperty(normalizePropertyForStorage(property.chars))
               THEN invalidate(d,
                               NotAllowedMessage(normalizePropertyForStorage(property.chars)),
                               NoArg)
               ELSE Validated(property, value, Validate(d, property, value)))

RECURSIVE SetEntries(_, _)
RECURSIVE SetRest(_, _)

\* _setMany, the loop: for (const [property, value] of Object.entries(properties))
\* this._setOne(property, value); an error thrown by _setOne ends the loop
SetEntries(d, entries) ==
    IF entries = <<>> THEN Result(d, Return(Undefined), <<>>)
    ELSE SetRest(Tail(entries),
                 After(<<CallOf(<<"_setOne">>, Head(entries))>>,
                       _setOne(d, String(Head(entries)[1]), Head(entries)[2])))

SetRest(entries, first) ==
    IF first.out.kind = "throw" THEN first
    ELSE After(first.calls, SetEntries(first.data, entries))

\* _setMany, the end: return properties
ReturnProperties(properties, loop) ==
    IF loop.out.kind = "throw" THEN loop
    ELSE Result(loop.data, ReturnObject(properties.entries), loop.calls)

_setMany_AcceptsArrays(d, properties) ==
    IF properties.type \notin {"object", "DataStore", "array"}
    THEN Result(d, Throw(TypeError(<<"properties must be an object">>)), <<>>)
    ELSE ReturnProperties(properties, SetEntries(d, properties.entries))

\* _setMany(properties)
_setMany(d, properties) ==
    IF IsNotObject(properties)
    THEN Result(d, Throw(TypeError(<<"properties must be an object">>)), <<>>)
    ELSE ReturnProperties(properties, SetEntries(d, properties.entries))

(***************************************************************************)
(* _setMany as the specification describes it (the tests of the class      *)
(* expect it to throw a MultipleValidationError): every entry is passed to *)
(* _setOne, the errors thrown are collected, and one                       *)
(* MultipleValidationError made from them is thrown after the last entry.  *)
(***************************************************************************)
\* the state of the loop: the data, the errors caught and the calls made
Loop(d, caught, calls) == [data |-> d, errors |-> caught, calls |-> calls]

RECURSIVE CollectEntries(_, _, _)
RECURSIVE CollectRest(_, _, _)

\* the loop: try { this._setOne(property, value) } catch (error) { errors.push(error) }
CollectEntries(d, entries, caught) ==
    IF entries = <<>> THEN Loop(d, caught, <<>>)
    ELSE CollectRest(Tail(entries), caught,
                     After(<<CallOf(<<"_setOne">>, Head(entries))>>,
                           _setOne(d, String(Head(entries)[1]), Head(entries)[2])))

\* the calls made for an entry, before those made for the entries after it
AfterEntry(calls, loop) == Loop(loop.data, loop.errors, calls \o loop.calls)

CollectRest(entries, caught, first) ==
    AfterEntry(first.calls,
               CollectEntries(first.data, entries,
                              IF first.out.kind = "throw"
                              THEN Append(caught, first.out.error)
                              ELSE caught))

\* the end: throw new MultipleValidationError(errors) when an entry failed,
\* return properties otherwise
RaiseCollected(properties, loop) ==
    IF loop.errors # <<>>
    THEN Result(loop.data, Throw(MultipleValidationError(loop.errors)), loop.calls)
    ELSE Result(loop.data, ReturnObject(properties.entries), loop.calls)

\* _setMany(properties), collecting
_setManyCollecting(d, properties) ==
    IF IsNotObject(properties)
    THEN Result(d, Throw(TypeError(<<"properties must be an object">>)), <<>>)
    ELSE RaiseCollected(properties, CollectEntries(d, properties.entries, <<>>))

\* the arguments of a call of set: arguments.length, property and value
Arguments(length, property, value) ==
    [length |-> length, property |-> property, value |-> value]

set_ByType(d, arguments) ==
    IF IsString(arguments.property)
    THEN _setOne(d, arguments.property, arguments.value)
    ELSE _setMany(d, arguments.property)

\* set(property, value)
set(d, arguments) ==
    IF arguments.length = 1 THEN _setMany(d, arguments.property)
    ELSE _setOne(d, arguments.property, arguments.value)

RECURSIVE GetEntries(_, _)
RECURSIVE GetRest(_, _)

\* serialize, the entries: the pair [property, this.get(property)] of a key
\* before the pairs of the keys after it
WithEntry(property, first, rest) ==
    IF rest.out.kind = "throw" THEN After(first.calls, rest)
    ELSE Result(rest.data,
                ReturnObject(<< <<property, first.out.value>> >> \o rest.out.object),
                first.calls \o rest.calls)

GetEntries_ReadsData(d, keys) ==
    Result(d, ReturnObject([i \in DOMAIN keys |-> <<keys[i], Read(d, keys[i])>>]), <<>>)

\* serialize, the entries: Object.keys(this.data).map(property => [property, this.get(property)])
GetEntries(d, keys) ==
    IF keys = <<>> THEN Result(d, ReturnObject(<<>>), <<>>)
    ELSE GetRest(keys,
                 After(<<CallOf(<<"get">>, <<Head(keys)>>)>>, get(d, String(Head(keys)))))

GetRest(keys, first) ==
    IF first.out.kind = "throw" THEN first
    ELSE WithEntry(Head(keys), first, GetEntries(first.data, Tail(keys)))

\* serialize, the object: entries.reduce((result, [property, value]) => ..., {})
RECURSIVE Reduce(_, _)
Reduce(entries, result) ==
    IF entries = <<>> THEN result
    ELSE Reduce(Tail(entries),
                Write(result,
                      normalizePropertyForSerialization(Head(entries)[1]),
                      Head(entries)[2]))

Serialized(entries) ==
    IF entries.out.kind = "throw" THEN entries
    ELSE Result(entries.data, ReturnObject(Reduce(entries.out.object, EmptyObject)),
                entries.calls)

\* serialize()
serialize(d) == Serialized(GetEntries(d, Keys(d)))

\* toJSON()
toJSON(d) == After(<<CallOf(<<"serialize">>, <<>>)>>, serialize(d))

DataGiven_AcceptsArrays(arg, from) ==
    IF arg.type = "undefined" THEN Result(from, ReturnObject(EmptyObject), <<>>)
    ELSE IF arg.type \notin {"object", "DataStore", "array"}
         THEN Result(from, Throw(TypeError(<<"DataStore data must be an object">>)), <<>>)
    ELSE IF arg.type = "DataStore"
         THEN After(<<CallOf(<<"serialize">>, <<>>)>>, serialize(from))
    ELSE Result(from, ReturnObject(arg.entries), <<>>)

\* constructor, the data: {} by default; an object, or the serialized data of
\* the DataStore given (from is its data)
DataGiven(arg, from) ==
    IF arg.type = "undefined" THEN Result(from, ReturnObject(EmptyObject), <<>>)
    ELSE IF IsNotObject(arg)
         THEN Result(from, Throw(TypeError(<<"DataStore data must be an object">>)), <<>>)
    ELSE IF arg.type = "DataStore"
         THEN After(<<CallOf(<<"serialize">>, <<>>)>>, serialize(from))
    ELSE Result(from, ReturnObject(arg.entries), <<>>)

RECURSIVE WriteAll_KeepsFirst(_, _)
WriteAll_KeepsFirst(entries, result) ==
    IF entries = <<>> THEN result
    ELSE WriteAll_KeepsFirst(
             Tail(entries),
             IF HasKey(result, normalizePropertyForStorage(Head(entries)[1])) THEN result
             ELSE Write(result, normalizePropertyForStorage(Head(entries)[1]),
                        Head(entries)[2]))

\* Object.entries(data).reduce((result, [property, value]) => ..., {}): the
\* entries of an object written under their normalized names
RECURSIVE WriteAll(_, _)
WriteAll(entries, result) ==
    IF entries = <<>> THEN result
    ELSE WriteAll(Tail(entries),
                  Write(result, normalizePropertyForStorage(Head(entries)[1]),
                        Head(entries)[2]))

Construct_WritesData(given) ==
    IF given.out.kind = "throw" THEN given
    ELSE Result(WriteAll(given.out.object, EmptyObject),
                ReturnObject(given.out.object), given.calls)

\* constructor, the store: this.data = {}; this.set(data)
Construct(given) ==
    IF given.out.kind = "throw" THEN given
    ELSE After(given.calls,
               set(EmptyObject, Arguments(1, PlainObject(given.out.object), Undefined)))

\* new DataStore(data): the data of the new store, or the error thrown
constructor(arg, from) == Construct(DataGiven(arg, from))

\* an argument that is a DataStore instance
Instance == NotAnObject("DataStore")

(***************************************************************************)
(* The calls on the store                                                  *)
(***************************************************************************)
\* the latest call: the method, the number of arguments, the arguments,
\* this.data before the call, what the call gave and the calls it made
Call(op, length, property, value, before, result) ==
    [op |-> op, length |-> length, property |-> property, value |-> value,
     before |-> before, out |-> result.out, calls |-> result.calls]

Class == <<methods, allowedProperties, disallowedProperties, serialization>>

\* the errors collected and their aggregate
Collected == <<errors, aggregate>>

\* what the calls on one store of the synchronous class leave alone
Elsewhere == <<assigned, promises, stores>>

\* nothing has been assigned to the instance
NoAssignment == [name |-> <<>>, value |-> "undefined", was |-> "undefined"]

\* no store is among several: records are the objects that exist, data[s] is
\* the object that this.data of the store s is, from[s] the store that s was
\* made from (0 when it was made from an object), called the store of the
\* latest call
NoStores == [records |-> <<>>, data |-> <<>>, from |-> <<>>, called |-> 0]

\* store.get(property)
Get ==
    \E property \in Strings \cup Others :
    \E result \in { get(data, property) } :
        /\ data' = result.data
        /\ last' = Call("get", 1, property, Undefined, data, result)
        /\ UNCHANGED <<Class, Collected, Elsewhere>>

\* store.set(property, value), also with a property that is not a string
SetOne ==
    \E property \in Strings \cup Others \cup { PlainObject(EmptyObject) }, value \in Values :
    \E result \in { set(data, Arguments(2, property, value)) } :
        /\ data' = result.data
        /\ last' = Call("set", 2, property, value, data, result)
        /\ UNCHANGED <<Class, Collected, Elsewhere>>

\* store.set(properties), also with properties that are not an object
SetMany ==
    \E properties \in Objects \cup Others \cup Strings :
    \E result \in { set(data, Arguments(1, properties, Undefined)) } :
        /\ data' = result.data
        /\ last' = Call("set", 1, properties, Undefined, data, result)
        /\ UNCHANGED <<Class, Collected, Elsewhere>>

\* store.invalidate(message, details)
Invalidate ==
    \E message \in Messages, details \in Details :
    \E result \in { invalidate(data, message, details) } :
        /\ data' = result.data
        /\ last' = Call("invalidate", 2, details, message, data, result)
        /\ UNCHANGED <<Class, Collected, Elsewhere>>

\* store.serialize()
Serialize ==
    \E result \in { serialize(data) } :
        /\ data' = result.data
        /\ last' = Call("serialize", 0, NoArg, Undefined, data, result)
        /\ UNCHANGED <<Class, Collected, Elsewhere>>

\* store = new DataStore(data): the store is the new one unless the constructor throws
New ==
    \E arg \in Objects \cup Others \cup Strings \cup { NoArg } :
    \E result \in { constructor(arg, data) } :
        /\ data' = IF result.out.kind = "throw" THEN data ELSE result.data
        /\ last' = Call("new", IF arg = NoArg THEN 0 ELSE 1, arg, Undefined, data, result)
        /\ UNCHANGED <<Class, Collected, Elsewhere>>

\* store = new DataStore(store)
Copy ==
    \E result \in { constructor(Instance, data) } :
        /\ data' = IF result.out.kind = "throw" THEN data ELSE result.data
        /\ last' = Call("new", 1, Instance, Undefined, data, result)
        /\ UNCHANGED <<Class, Collected, Elsewhere>>

(***************************************************************************)
(* The classes and the specifications                                      *)
(***************************************************************************)
\* a class that defines none of getAB, setAB, validateAB
NoMethods == [name \in MethodNames |-> "undefined"]

\* the classes with methods: a getter, a property getAB that is not a function,
\* a validator, a setter, a validator and a setter, a validator that throws an
\* Error and a setter
Classes ==
    { NoMethods,
      [NoMethods EXCEPT ![GetterName] = "getScientificName"],
      [NoMethods EXCEPT ![GetterName] = "not a function"],
      [NoMethods EXCEPT ![ValidatorName] = "validateColor"],
      [NoMethods EXCEPT ![SetterName] = "mock setter"],
      [NoMethods EXCEPT ![ValidatorName] = "validateColor", ![SetterName] = "mock setter"],
      [NoMethods EXCEPT ![ValidatorName] = "mock validator", ![SetterName] = "mock setter"] }

\* static allowedProperties (unset, an empty array, or two names) and static
\* disallowedProperties (unset, or one name)
AllowedLists == { NotSet, <<>>, << <<"a", "B">>, <<"a", "B", "C">> >> }
DisallowedLists == { NotSet, << <<"a", "B", "C">> >> }

Serializations == { "identity", "underscore" }

\* no error has been collected
NoErrors == errors = <<>> /\ aggregate = NoError

\* store = new DataStore()
Created ==
    /\ assigned = NoAssignment
    /\ promises = <<>>
    /\ stores = NoStores
    /\ data = EmptyObject
    /\ last = Call("new", 0, NoArg, Undefined, EmptyObject, constructor(NoArg, EmptyObject))

\* a store of a class with methods, without lists of properties
Init ==
    /\ methods \in Classes
    /\ allowedProperties = NotSet
    /\ disallowedProperties = NotSet
    /\ serialization \in Serializations
    /\ Created
    /\ NoErrors

Next == Get \/ SetOne \/ SetMany \/ Invalidate \/ Serialize

Spec == Init /\ [][Next]_vars

\* the classes with lists: without methods, with the validator, with the
\* validator and a setter
PolicyClasses ==
    { NoMethods,
      [NoMethods EXCEPT ![ValidatorName] = "validateColor"],
      [NoMethods EXCEPT ![ValidatorName] = "validateColor", ![SetterName] = "mock setter"] }

\* a store of a class with lists of allowed and disallowed properties
InitPolicy ==
    /\ methods \in PolicyClasses
    /\ allowedProperties \in AllowedLists
    /\ disallowedProperties \in DisallowedLists
    /\ serialization = "identity"
    /\ Created
    /\ NoErrors

NextPolicy == Get \/ SetOne \/ SetMany \/ New

SpecPolicy == InitPolicy /\ [][NextPolicy]_vars

\* stores made from objects and from stores, of a class that serializes the
\* names as they are stored or with underscores
InitNew ==
    /\ methods = NoMethods
    /\ allowedProperties = NotSet
    /\ disallowedProperties = NotSet
    /\ serialization \in Serializations
    /\ Created
    /\ NoErrors

NextNew == New \/ Copy \/ Serialize \/ SetOne \/ Get

SpecNew == InitNew /\ [][NextNew]_vars

\* store._setMany(properties), collecting
SetManyCollecting ==
    \E properties \in Objects \cup Others :
    \E result \in { _setManyCollecting(data, properties) } :
        /\ data' = result.data
        /\ last' = Call("_setMany", 1, properties, Undefined, data, result)
        /\ UNCHANGED <<Class, Collected, Elsewhere>>

\* the classes of the stores that collect: without methods, with the validator,
\* with a validator that throws an Error
CollectingClasses ==
    { NoMethods,
      [NoMethods EXCEPT ![ValidatorName] = "validateColor"],
      [NoMethods EXCEPT ![ValidatorName] = "mock validator"] }

\* a store whose _setMany collects the errors
InitCollecting ==
    /\ methods \in CollectingClasses
    /\ allowedProperties = NotSet
    /\ disallowedProperties \in DisallowedLists
    /\ serialization = "identity"
    /\ Created
    /\ NoErrors

NextCollecting == SetManyCollecting \/ Get

SpecCollecting == InitCollecting /\ [][NextCollecting]_vars

\* the most errors a caller collects
MaxErrors == 3

\* the errors a caller collects: ValidationErrors, a TypeError and an Error
Thrown ==
    { ValidationError(<<"mock validation error 1">>, NoArg, "undefined"),
      ValidationError(<<"mock validation error 2">>, NoArg, "undefined"),
      TypeError(<<"mock validation error 2">>),
      Error(<<"mock validation error 3">>) }

\* validationErrors.push(error)
Collect ==
    \E error \in Thrown :
        /\ Len(errors) < MaxErrors
        /\ errors' = Append(errors, error)
        /\ aggregate' = NoError
        /\ UNCHANGED <<data, last, Class, Elsewhere>>

\* new MultipleValidationError(validationErrors)
Aggregate ==
    /\ aggregate' = MultipleValidationError(errors)
    /\ UNCHANGED <<data, last, Class, errors, Elsewhere>>

\* the errors made from lists of caught errors
InitErrors ==
    /\ methods = NoMethods
    /\ allowedProperties = NotSet
    /\ disallowedProperties = NotSet
    /\ serialization = "identity"
    /\ Created
    /\ NoErrors

NextErrors == Collect \/ Aggregate

SpecErrors == InitErrors /\ [][NextErrors]_vars

\* what is assigned to getAB, setAB and validateAB of an instance: a function,
\* a value that is not a function, or undefined (the property is removed)
Assignable ==
    [n \in MethodNames |->
        CASE n = GetterName -> { "getScientificName", "not a function", "undefined" }
          [] n = SetterName -> { "mock setter", "not a function", "undefined" }
          [] n = ValidatorName -> { "validateColor", "not a function", "undefined" }]

\* instance[name] = value, between two calls
Assign ==
    \E name \in MethodNames :
    \E value \in Assignable[name] \ { methods[name] } :
        /\ methods' = [methods EXCEPT ![name] = value]
        /\ assigned' = [name |-> name, value |-> value, was |-> methods[name]]
        /\ last' = Call("assign", 2, String(name), <<value>>, data,
                        Result(data, Return(Undefined), <<>>))
        /\ UNCHANGED <<data, allowedProperties, disallowedProperties, serialization,
                       Collected, promises, stores>>

\* a store whose instance gets and loses its getter, setter and validator
InitOverrides ==
    /\ methods = NoMethods
    /\ allowedProperties = NotSet
    /\ disallowedProperties = NotSet
    /\ serialization = "identity"
    /\ Created
    /\ NoErrors

NextOverrides == Assign \/ Get \/ SetOne

SpecOverrides == InitOverrides /\ [][NextOverrides]_vars

(***************************************************************************)
(* The asynchronous variant (src/lib/data-store.js): get, _setOne and      *)
(* _setMany are async functions.  A call runs to its first await and gives *)
(* a promise; a promise that waits for another is settled later, by a job; *)
(* the promise of an asynchronous getter or setter is settled when the     *)
(* work of that method is done.                                            *)
(***************************************************************************)
\* the most setters that are at work at a time
MaxWorking == 2

\* a promise: the function it is the promise of, its state, what it is settled
\* with, the promises it waits for and, for the promise of a setter, the write
\* the setter makes when its work is done
Promise(of, state, out, on, key, value) ==
    [of |-> of, state |-> state, out |-> out, on |-> on, key |-> key, value |-> value]

Fulfilled(of, value) == Promise(of, "fulfilled", Return(value), <<>>, <<>>, Undefined)
Rejection(of, error) == Promise(of, "rejected", Throw(error), <<>>, <<>>, Undefined)

\* a pending promise that is settled as the promises it waits for are; out is
\* what the function returns after its await, where it has one
Waiting(of, on, out) == Promise(of, "pending", out, on, <<>>, Undefined)

\* the pending promise of an asynchronous method at work
Working(of, key, value) == Promise(of, "pending", Return(Undefined), <<>>, key, value)

\* what a call of the asynchronous variant leaves: the record, the promises (the
\* promise the call returns is the last of them) and the calls made
Started(d, ps, calls) == [data |-> d, promises |-> ps, calls |-> calls]

\* the promise a call returns, as a value
PromiseRef(i) == <<"promise", ToString(i)>>

\* this[name](...args) in the asynchronous variant, for the functions of the model:
\*   async getter     an async function: its promise is pending when it returns
\*   resolved getter  jest.fn().mockResolvedValue('mock value 1') (unit tests)
\*   async setter     an async function that sets this.data.aB to the value when
\*                    its work is done, and rejects a value that is not valid
async_Invoke(ps, name, args) ==
    CASE Lookup(name) = "async getter" -> Append(ps, Working("getter", <<>>, Undefined))
      [] Lookup(name) = "resolved getter" ->
           Append(ps, Fulfilled("getter", <<"mock value 1">>))
      [] Lookup(name) = "async setter" ->
           Append(ps, Working("setter", OverriddenKey, args[1]))
      [] OTHER -> Append(ps, Fulfilled("method", Undefined))

\* an async function returns the promise p of the method it called: its own
\* promise waits for p
Returning(of, ps) == Append(ps, Waiting(of, <<Len(ps)>>, Return(Undefined)))

async_get_ReadsData(d, ps, property) ==
    IF ~IsString(property)
    THEN Started(d, Append(ps, Rejection("get",
                                         TypeError(<<"property name must be a string">>))),
                 <<>>)
    ELSE Started(d,
                 Append(ps, Fulfilled("get",
                                      Read(d, normalizePropertyForStorage(property.chars)))),
                 <<>>)

\* async get(property)
async_get(d, ps, property) ==
    IF ~IsString(property)
    THEN Started(d, Append(ps, Rejection("get",
                                         TypeError(<<"property name must be a string">>))),
                 <<>>)
    ELSE IF HasFunction(MethodName("get", property))
         THEN Started(d,
                      Returning("get", async_Invoke(ps, MethodName("get", property), <<>>)),
                      <<CallOf(MethodName("get", property), <<>>)>>)
    ELSE Started(d,
                 Append(ps, Fulfilled("get",
                                      Read(d, normalizePropertyForStorage(property.chars)))),
                 <<>>)

async_setOne_WritesLater(d, ps, property, value) ==
    IF ~IsString(property)
    THEN Started(d, Append(ps, Rejection("_setOne",
                                         TypeError(<<"property name must be a string">>))),
                 <<>>)
    ELSE IF HasFunction(MethodName("set", property))
         THEN Started(d,
                      Returning("_setOne",
                                async_Invoke(ps, MethodName("set", property), <<value>>)),
                      <<CallOf(MethodName("set", property), <<value>>)>>)
    ELSE Started(d,
                 Returning("_setOne",
                           Append(ps, Working("setter",
                                              normalizePropertyForStorage(property.chars),
                                              value))),
                 <<>>)

\* async _setOne(property, value)
async_setOne(d, ps, property, value) ==
    IF ~IsString(property)
    THEN Started(d, Append(ps, Rejection("_setOne",
                                         TypeError(<<"property name must be a string">>))),
                 <<>>)
    ELSE IF HasFunction(MethodName("set", property))
         THEN Started(d,
                      Returning("_setOne",
                                async_Invoke(ps, MethodName("set", property), <<value>>)),
                      <<CallOf(MethodName("set", property), <<value>>)>>)
    ELSE Started(Write(d, normalizePropertyForStorage(property.chars), value),
                 Append(ps, Fulfilled("_setOne", value)),
                 <<>>)

RECURSIVE MapEntries(_, _, _, _)
RECURSIVE MapRest(_, _, _, _, _)

\* _setMany, the map: Object.entries(properties).map(([property, value]) =>
\* this._setOne(property, value)), and the await of Promise.all of the promises
\* mapped; started holds the record, the promises and the calls so far
MapEntries(properties, entries, started, mapped) ==
    IF entries = <<>>
    THEN Started(started.data,
                 Append(started.promises,
                        Waiting("_setMany", mapped, ReturnObject(properties.entries))),
                 started.calls)
    ELSE MapRest(properties, Tail(entries),
                 started.calls \o <<CallOf(<<"_setOne">>, Head(entries))>>,
                 mapped,
                 async_setOne(started.data, started.promises,
                              String(Head(entries)[1]), Head(entries)[2]))

\* the promise _setOne has returned for an entry is mapped, and the entries
\* after it follow
MapRest(properties, entries, calls, mapped, one) ==
    MapEntries(properties, entries,
               Started(one.data, one.promises, calls \o one.calls),
               Append(mapped, Len(one.promises)))

\* the entries of an object, the last one first
Reversed(entries) == [i \in DOMAIN entries |-> entries[Len(entries) + 1 - i]]

async_setMany_LastEntryFirst(d, ps, properties) ==
    IF IsNotObject(properties)
    THEN Started(d, Append(ps, Rejection("_setMany",
                                         TypeError(<<"properties must be an object">>))),
                 <<>>)
    ELSE MapEntries(properties, Reversed(properties.entries), Started(d, ps, <<>>), <<>>)

async_setMany_StartsOne(d, ps, properties) ==
    IF IsNotObject(properties)
    THEN Started(d, Append(ps, Rejection("_setMany",
                                         TypeError(<<"properties must be an object">>))),
                 <<>>)
    ELSE MapEntries(properties,
                    IF properties.entries = <<>> THEN <<>> ELSE <<Head(properties.entries)>>,
                    Started(d, ps, <<>>), <<>>)

\* async _setMany(properties)
async_setMany(d, ps, properties) ==
    IF IsNotObject(properties)
    THEN Started(d, Append(ps, Rejection("_setMany",
                                         TypeError(<<"properties must be an object">>))),
                 <<>>)
    ELSE MapEntries(properties, properties.entries, Started(d, ps, <<>>), <<>>)

\* set(property, value), which returns the promise of _setMany or of _setOne
async_set(d, ps, arguments) ==
    IF arguments.length = 1 THEN async_setMany(d, ps, arguments.property)
    ELSE async_setOne(d, ps, arguments.property, arguments.value)

\* a promise that is not pending
Settled(p) == p.state # "pending"

\* a job can settle the promise: the promise it waits for is settled or, for
\* the promise of _setMany (Promise.all), one of them is rejected or all are
\* fulfilled
Ready(ps, i) ==
    /\ ps[i].state = "pending"
    /\ ps[i].of \in { "get", "_setOne", "_setMany" }
    /\ IF ps[i].of = "_setMany"
       THEN \/ \E j \in DOMAIN ps[i].on : ps[ps[i].on[j]].state = "rejected"
            \/ \A j \in DOMAIN ps[i].on : ps[ps[i].on[j]].state = "fulfilled"
       ELSE Settled(ps[ps[i].on[1]])

\* the first of the promises waited for that is rejected
FirstRejected(ps, i) ==
    ps[ps[i].on[CHOOSE j \in DOMAIN ps[i].on :
                    /\ ps[ps[i].on[j]].state = "rejected"
                    /\ \A k \in 1..(j - 1) : ps[ps[i].on[k]].state # "rejected"]]

\* the promise as the job settles it: the promise of get and of _setOne as the
\* promise it returned is; the promise of _setMany rejected as the first
\* rejected promise of the batch is, or fulfilled with properties
Adopt(ps, i) ==
    IF ps[i].of = "_setMany"
    THEN IF \E j \in DOMAIN ps[i].on : ps[ps[i].on[j]].state = "rejected"
         THEN [ps[i] EXCEPT !.state = "rejected", !.out = FirstRejected(ps, i).out]
         ELSE [ps[i] EXCEPT !.state = "fulfilled"]
    ELSE [ps[i] EXCEPT !.state = ps[ps[i].on[1]].state, !.out = ps[ps[i].on[1]].out]


\* the call of the asynchronous variant and the promise it has returned (the
\* record before the call is not kept)
AsyncCall(op, length, property, value, before, started) ==
    Call(op, length, property, value, before,
         [out |-> Return(PromiseRef(Len(started.promises))), calls |-> started.calls])

\* the arguments of the calls: the spellings a_b, aB and a_bC, and 123
AsyncStrings == { String(p) : p \in EntryNames }
AsyncOthers == { NotAnObject("number") }

\* the promise of a setter whose work is not done
AtWork(p) == p.state = "pending" /\ p.of = "setter"

\* the promises kept when a call is made: those of the setters still at work,
\* which will write to the record; the caller looks at the promises of the
\* latest call
Live(ps) == SelectSeq(ps, AtWork)

\* store.get(property), which returns a promise
AsyncGet ==
    \E property \in AsyncStrings \cup AsyncOthers :
    \E started \in { async_get(data, Live(promises), property) } :
        /\ Len(Live(started.promises)) <= MaxWorking
        /\ data' = started.data
        /\ promises' = started.promises
        /\ last' = AsyncCall("get", 1, property, Undefined, EmptyObject, started)
        /\ UNCHANGED <<Class, Collected, assigned, stores>>

\* store.set(property, value), which returns a promise
AsyncSetOne ==
    \E property \in AsyncStrings \cup AsyncOthers, value \in Values :
    \E started \in { async_set(data, Live(promises), Arguments(2, property, value)) } :
        /\ Len(Live(started.promises)) <= MaxWorking
        /\ data' = started.data
        /\ promises' = started.promises
        /\ last' = AsyncCall("set", 2, property, value, EmptyObject, started)
        /\ UNCHANGED <<Class, Collected, assigned, stores>>

\* store.set(properties), which returns a promise
AsyncSetMany ==
    \E properties \in Objects \cup AsyncOthers :
    \E started \in { async_set(data, Live(promises), Arguments(1, properties, Undefined)) } :
        /\ Len(Live(started.promises)) <= MaxWorking
        /\ data' = started.data
        /\ promises' = started.promises
        /\ last' = AsyncCall("set", 1, properties, Undefined, EmptyObject, started)
        /\ UNCHANGED <<Class, Collected, assigned, stores>>

\* a job settles a promise that waits for others; the jobs run in the order in
\* which they were queued
Job ==
    \E i \in DOMAIN promises :
        /\ Ready(promises, i)
        /\ \A j \in 1..(i - 1) : ~Ready(promises, j)
        /\ promises' = [promises EXCEPT ![i] = Adopt(promises, i)]
        /\ UNCHANGED <<data, last, Class, Collected, assigned, stores>>

\* the errors an asynchronous getter or setter rejects with
GetterError == Error(<<"mock getter error">>)
SetterError == Error(<<"mock setter error">>)

\* the work of an asynchronous getter is done, once no job is left to run: its
\* promise is fulfilled with its value or rejected
SettleGetter ==
    \E i \in DOMAIN promises :
    \E out \in { Return(<<"mock value 1">>), Throw(GetterError) } :
        /\ promises[i].state = "pending"
        /\ promises[i].of = "getter"
        /\ \A j \in DOMAIN promises : ~Ready(promises, j)
        /\ promises' = [promises EXCEPT
                           ![i].state = IF out.kind = "throw" THEN "rejected" ELSE "fulfilled",
                           ![i].out = out]
        /\ UNCHANGED <<data, last, Class, Collected, assigned, stores>>

\* the work of an asynchronous setter is done, once no job is left to run: it
\* writes a valid value to the record and its promise is fulfilled with the
\* value, or its promise is rejected
SettleSetter ==
    \E i \in DOMAIN promises :
        /\ promises[i].state = "pending"
        /\ promises[i].of = "setter"
        /\ \A j \in DOMAIN promises : ~Ready(promises, j)
        /\ IF promises[i].value \in ValidValues
           THEN /\ data' = Write(data, promises[i].key, promises[i].value)
                /\ promises' = [promises EXCEPT ![i].state = "fulfilled",
                                                ![i].out = Return(promises[i].value)]
           ELSE /\ data' = data
                /\ promises' = [promises EXCEPT ![i].state = "rejected",
                                                ![i].out = Throw(SetterError)]
        /\ UNCHANGED <<last, Class, Collected, assigned, stores>>

\* the classes of the asynchronous variant: without methods, with a getter whose
\* promise is pending or resolved, with an asynchronous setter
AsyncClasses ==
    { NoMethods,
      [NoMethods EXCEPT ![GetterName] = "async getter"],
      [NoMethods EXCEPT ![GetterName] = "resolved getter"],
      [NoMethods EXCEPT ![SetterName] = "async setter"] }

\* a store of the asynchronous variant
InitAsync ==
    /\ methods \in AsyncClasses
    /\ allowedProperties = NotSet
    /\ disallowedProperties = NotSet
    /\ serialization = "identity"
    /\ Created
    /\ NoErrors

NextAsync == AsyncGet \/ AsyncSetOne \/ AsyncSetMany \/ Job \/ SettleGetter \/ SettleSetter

SpecAsync == InitAsync /\ [][NextAsync]_vars

(***************************************************************************)
(* Several stores.  this.data of a store is one of the objects that exist; *)
(* two stores have the same record when their this.data is one object.     *)
(***************************************************************************)
\* the most stores
MaxStores == 3

\* raw(): return this.data
raw(st, s) == st.data[s]

\* a store s whose this.data is a new object with the entries given
WithNewStore(st, entries, from) ==
    [records |-> Append(st.records, entries),
     data |-> Append(st.data, Len(st.records) + 1),
     from |-> Append(st.from, from),
     called |-> Len(st.data) + 1]

\* what new DataStore(data) leaves: the stores and what the constructor gave
Made(st, out) == [stores |-> st, out |-> out]

async_constructor_KeepsRaw(st, arg, from) ==
    IF arg.type # "undefined" /\ IsNotObject(arg)
    THEN Made(st, Throw(TypeError(<<"DataStore data must be an object">>)))
    ELSE IF arg.type = "DataStore"
         THEN Made([st EXCEPT !.data = Append(@, raw(st, from)),
                              !.from = Append(@, from),
                              !.called = Len(st.data) + 1],
                   ReturnObject(st.records[raw(st, from)]))
    ELSE Made(WithNewStore(st, WriteAll(arg.entries, EmptyObject), 0),
              ReturnObject(WriteAll(arg.entries, EmptyObject)))

\* new DataStore(data) of the asynchronous variant: data is {} by default, an
\* object, or the store from, of which the raw data is taken; this.data is a
\* new object made from the entries
async_constructor(st, arg, from) ==
    IF arg.type # "undefined" /\ IsNotObject(arg)
    THEN Made(st, Throw(TypeError(<<"DataStore data must be an object">>)))
    ELSE IF arg.type = "DataStore"
         THEN Made(WithNewStore(st, WriteAll(st.records[raw(st, from)], EmptyObject), from),
                   ReturnObject(WriteAll(st.records[raw(st, from)], EmptyObject)))
    ELSE Made(WithNewStore(st, WriteAll(arg.entries, EmptyObject), 0),
              ReturnObject(WriteAll(arg.entries, EmptyObject)))

\* new DataStore(data) of the synchronous class (constructor, above): this.data
\* is a new object, {}, written by set
sync_constructor(st, arg, from, result) ==
    IF result.out.kind = "throw" THEN Made(st, result.out)
    ELSE Made(WithNewStore(st, result.data, from), ReturnObject(result.data))

\* the call on one of several stores
StoreCall(op, length, property, value, out, calls) ==
    Call(op, length, property, value, EmptyObject, [out |-> out, calls |-> calls])

\* the first store: new DataStore(data), with an object, with something else or
\* with nothing
StoreNew ==
    \E arg \in Objects \cup AsyncOthers \cup { NoArg } :
    \E made \in { async_constructor(stores, arg, 0) } :
        /\ stores.data = <<>>
        /\ stores' = made.stores
        /\ last' = StoreCall("new", IF arg = NoArg THEN 0 ELSE 1, arg, Undefined, made.out,
                             <<>>)
        /\ UNCHANGED <<data, Class, Collected, assigned, promises>>

\* new DataStore(store), in the asynchronous variant
StoreCopy ==
    \E from \in DOMAIN stores.data :
    \E made \in { async_constructor(stores, Instance, from) } :
        /\ Len(stores.data) < MaxStores
        /\ stores' = made.stores
        /\ last' = StoreCall("new", 1, Instance, Undefined, made.out,
                             <<CallOf(<<"raw">>, <<>>)>>)
        /\ UNCHANGED <<data, Class, Collected, assigned, promises>>

\* new DataStore(store), in the synchronous class
StoreCopySync ==
    \E from \in DOMAIN stores.data :
    \E result \in { constructor(Instance, stores.records[raw(stores, from)]) } :
    \E made \in { sync_constructor(stores, Instance, from, result) } :
        /\ Len(stores.data) < MaxStores
        /\ stores' = made.stores
        /\ last' = StoreCall("new", 1, Instance, Undefined, made.out, result.calls)
        /\ UNCHANGED <<data, Class, Collected, assigned, promises>>

\* the spellings of the property that is set on the stores
StoreStrings == { String(<<"a", "_", "b">>), String(<<"a", "B">>) }

\* set(property, value) on the store s: this.data of s is written, and with it
\* the record of every store that has the same object
StoreSet ==
    \E s \in DOMAIN stores.data :
    \E property \in StoreStrings, value \in Values :
    \E started \in { async_set(stores.records[raw(stores, s)], <<>>,
                                Arguments(2, property, value)) } :
        /\ stores' = [stores EXCEPT !.records[raw(stores, s)] = started.data,
                                    !.called = s]
        /\ last' = StoreCall("set", 2, property, value,
                             Return(PromiseRef(Len(started.promises))), started.calls)
        /\ UNCHANGED <<data, Class, Collected, assigned, promises>>

\* stores of a class without methods and without lists: a first store, and
\* stores made from stores
InitStores ==
    /\ methods = NoMethods
    /\ allowedProperties = NotSet
    /\ disallowedProperties = NotSet
    /\ serialization = "identity"
    /\ Created
    /\ NoErrors

NextStores == StoreNew \/ StoreCopy \/ StoreCopySync \/ StoreSet

SpecStores == InitStores /\ [][NextStores]_vars

(***************************************************************************)
(* Properties                                                              *)
(***************************************************************************)
\* the instance has no function under get<Name>, set<Name> or validate<Name>
NoOverride(property) ==
    /\ ~HasFunction(MethodName("get", property))
    /\ ~HasFunction(MethodName("set", property))
    /\ ~HasFunction(MethodName("validate", property))

\* the latest call was set(property, value) with a string for property
WasSetOne == last.op = "set" /\ last.length = 2 /\ IsString(last.property)

\* the latest call was set(properties) with an object
WasSetMany == last.op = "set" /\ last.length = 1 /\ last.property.type = "object"

\* the number of entries of an object under a key
Count(obj, key) == Cardinality({ i \in DOMAIN obj : obj[i][1] = key })

\* C1: after set(S1, v) has returned, with no function found under the get, set
\* and validate names of the property, get(S2) returns v for every spelling S2
\* that storage normalization maps to the key of S1.
C1_SpellingsShareAValue ==
    (WasSetOne /\ last.out.kind = "return" /\ NoOverride(last.property)) =>
        \A S2 \in Strings :
            (/\ normalizePropertyForStorage(S2.chars)
                    = normalizePropertyForStorage(last.property.chars)
             /\ NoOverride(S2))
            => get(data, S2).out = Return(last.value)

\* set('a_b', 1) has returned, and 1 is read under aB
C1_Witness ==
    /\ WasSetOne
    /\ last.property = String(<<"a", "_", "b">>)
    /\ last.out = Return(<<"number 1">>)
    /\ methods = NoMethods
    /\ get(data, String(<<"a", "B">>)).out = Return(<<"number 1">>)

\* an entry of a batch that the validator of the class rejects
Rejected(entry) ==
    /\ HasFunction(MethodName("validate", String(entry[1])))
    /\ entry[2] \notin ValidValues

\* C2: a batch set of two entries, of which one is rejected by its validator (a
\* ValidationError) and the other has no validator, writes the other entry and
\* throws a MultipleValidationError whose validationErrors are exactly the one
\* error thrown for the rejected entry.
C2_BatchRaisesAggregate ==
    (/\ WasSetMany
     /\ methods = [NoMethods EXCEPT ![ValidatorName] = "validateColor"]
     /\ Len(last.property.entries) = 2
     /\ \E i, j \in DOMAIN last.property.entries :
            /\ Rejected(last.property.entries[i])
            /\ NoOverride(String(last.property.entries[j][1])))
    => /\ last.out.kind = "throw"
       /\ last.out.error.name = "MultipleValidationError"
       /\ last.out.error.validationErrors
              = <<ValidationError(<<"Invalid color">>, NoArg, "undefined")>>
       /\ \A j \in DOMAIN last.property.entries :
              NoOverride(String(last.property.entries[j][1])) =>
                  Read(data, normalizePropertyForStorage(last.property.entries[j][1]))
                      = last.property.entries[j][2]

\* C3: a batch set passes every entry of the batch to _setOne, also the entries
\* after one that failed, and writes each entry that is valid.
C3_EveryEntryAttempted ==
    WasSetMany =>
        /\ \A i \in DOMAIN last.property.entries :
               \E c \in DOMAIN last.calls :
                   last.calls[c] = CallOf(<<"_setOne">>, last.property.entries[i])
        /\ \A i \in DOMAIN last.property.entries :
               (/\ NoOverride(String(last.property.entries[i][1]))
                /\ \A j \in DOMAIN last.property.entries :
                       normalizePropertyForStorage(last.property.entries[j][1])
                           = normalizePropertyForStorage(last.property.entries[i][1])
                       => j = i)
               => Read(data, normalizePropertyForStorage(last.property.entries[i][1]))
                      = last.property.entries[i][2]

\* the key of an entry of a batch is listed in disallowedProperties
Disallowed(key) ==
    /\ disallowedProperties # NotSet
    /\ Includes(disallowedProperties, normalizePropertyForStorage(key))

\* C4: in a class that lists a normalized property name in disallowedProperties,
\* set of that property (alone or in a batch) throws a ValidationError and leaves
\* the value under the name as it was, also when allowedProperties lists the
\* name; set of the property alone leaves the whole record as it was.
C4_DisallowedAlwaysFails ==
    /\ (WasSetOne /\ Disallowed(last.property.chars)) =>
           /\ last.out.kind = "throw"
           /\ last.out.error.name = "ValidationError"
           /\ data = last.before
    /\ WasSetMany =>
           \A i \in DOMAIN last.property.entries :
               Disallowed(last.property.entries[i][1]) =>
                   /\ last.out.kind = "throw"
                   /\ last.out.error.name = "ValidationError"
                   /\ Read(data, normalizePropertyForStorage(last.property.entries[i][1]))
                          = Read(last.before,
                                 normalizePropertyForStorage(last.property.entries[i][1]))

\* set('a_bC', 1) has thrown in a class that lists aBC as allowed and as disallowed
C4_Witness ==
    /\ WasSetOne
    /\ last.property = String(<<"a", "_", "b", "C">>)
    /\ allowedProperties # NotSet
    /\ Includes(allowedProperties, <<"a", "B", "C">>)
    /\ Disallowed(<<"a", "_", "b", "C">>)
    /\ last.out.kind = "throw"
    /\ last.out.error.name = "ValidationError"

\* C5: when the instance has a function under get<Name>, get(property) calls it
\* once, with no arguments, and returns what it returns; with the getter of the
\* model that is never the value stored under the normalized name.
C5_GetterPreferred ==
    (/\ last.op = "get"
     /\ IsString(last.property)
     /\ Lookup(MethodName("get", last.property)) = "getScientificName")
    => /\ last.calls = <<CallOf(MethodName("get", last.property), <<>>)>>
       /\ last.out = Return(<<"getter">> \o Read(last.before, OverriddenKey))
       /\ last.out.value
              # Read(last.before, normalizePropertyForStorage(last.property.chars))
       /\ data = last.before

\* get('a_b') has returned the result of getAB while a value is stored under aB
C5_Witness ==
    /\ last.op = "get"
    /\ last.property = String(<<"a", "_", "b">>)
    /\ methods[GetterName] = "getScientificName"
    /\ Read(data, <<"a", "B">>) = <<"number 1">>
    /\ last.out = Return(<<"getter", "number 1">>)

\* C6: after set(x, v2) has returned for a property without overrides, whatever
\* was set before, get(x) returns v2 and the record has exactly one entry under
\* the normalized name of x.
C6_LastWriteWins ==
    (WasSetOne /\ last.out.kind = "return" /\ NoOverride(last.property)) =>
        /\ get(data, last.property).out = Return(last.value)
        /\ Count(data, normalizePropertyForStorage(last.property.chars)) = 1
        /\ Len(data) = Len(last.before)
               + (IF HasKey(last.before, normalizePropertyForStorage(last.property.chars))
                  THEN 0 ELSE 1)

\* set(x, v2) has returned on a store that held another value v1 for x
C6_Witness ==
    /\ WasSetOne
    /\ last.out.kind = "return"
    /\ NoOverride(last.property)
    /\ HasKey(last.before, normalizePropertyForStorage(last.property.chars))
    /\ Read(last.before, normalizePropertyForStorage(last.property.chars)) # last.value
    /\ Read(data, normalizePropertyForStorage(last.property.chars)) = last.value

\* C7: new DataStore(data) with null, an array, a number or a string for data throws the
\* TypeError 'DataStore data must be an object', and no store is made.
C7_ConstructorRejectsNonObjects ==
    (last.op = "new" /\ last.property.type \in {"null", "array", "number", "string"}) =>
        /\ last.out = Throw(TypeError(<<"DataStore data must be an object">>))
        /\ last.calls = <<>>
        /\ data = last.before

\* new DataStore([]) has thrown while a store with data exists
C7_Witness ==
    /\ last.op = "new"
    /\ last.property = NotAnObject("array")
    /\ last.out.kind = "throw"
    /\ last.out.error.name = "TypeError"
    /\ data # EmptyObject

\* C8: invalidate(message, details) throws, always, a ValidationError with the
\* message given, the details given ({} when none are given) and the code
\* 'PROPERTY_VALIDATION'.
C8_InvalidateThrows ==
    last.op = "invalidate" =>
        /\ last.out.kind = "throw"
        /\ last.out.error.name = "ValidationError"
        /\ last.out.error.message = last.value
        /\ last.out.error.details
               = (IF last.property = NoArg THEN PlainObject(EmptyObject) ELSE last.property)
        /\ last.out.error.code = "PROPERTY_VALIDATION"
        /\ data = last.before

\* invalidate('mock message', {mockDetails: true}) has thrown an error with those details
C8_Witness ==
    /\ last.op = "invalidate"
    /\ last.property = PlainObject(<< << <<"mockDetails">>, <<"true">> >> >>)
    /\ last.out.kind = "throw"
    /\ last.out.error.details = last.property
    /\ last.out.error.message = <<"mock message">>

\* the entries of an object, in any order
Pairs(obj) == { obj[i] : i \in DOMAIN obj }

\* the map that sends the serialized name of each key of D to the value of D
\* under that key (the latest entry, when keys of D are spellings of one name)
RECURSIVE Renamed(_, _)
Renamed(D, result) ==
    IF D = <<>> THEN result
    ELSE Renamed(Tail(D),
                 Write(result,
                       normalizePropertyForSerialization(
                           normalizePropertyForStorage(Head(D)[1])),
                       Head(D)[2]))

\* C9: for a store made by new DataStore(D) from an object D, in a class without
\* overrides, serialize() returns the map that sends
\* normalizePropertyForSerialization(normalizePropertyForStorage(k)) to D[k] for
\* every key k of D, and nothing else.
C9_SerializeRenamesKeys ==
    (/\ last.op = "new"
     /\ last.property.type = "object"
     /\ last.out.kind # "throw")
    => /\ serialize(data).out.kind = "return object"
       /\ Pairs(serialize(data).out.object) = Pairs(Renamed(last.property.entries, EmptyObject))

\* C10: a store made from the serialized data of a store (new DataStore(store))
\* holds, under the storage name of each serialized name, the value the
\* original store held, and no other names.
C10_RoundTrip ==
    (/\ last.op = "new"
     /\ last.property = Instance
     /\ last.out.kind # "throw")
    => /\ \A i \in DOMAIN last.before :
              Read(data,
                   normalizePropertyForStorage(
                       normalizePropertyForSerialization(last.before[i][1])))
                  = last.before[i][2]
       /\ Len(data) = Len(last.before)

\* the normalized name of a key is not an allowed property of the class
NotAllowed(key) == ~isAllowedProperty(normalizePropertyForStorage(key))

\* C11: new DataStore(data) with an object that has a key that is not an allowed
\* property of the class, or a value that the validator of its property rejects,
\* throws a ValidationError and no store is made.
C11_ConstructionChecksEntries ==
    (/\ last.op = "new"
     /\ last.property.type = "object"
     /\ \E i \in DOMAIN last.property.entries :
            \/ NotAllowed(last.property.entries[i][1])
            \/ Rejected(last.property.entries[i]))
    => /\ last.out.kind = "throw"
       /\ last.out.error.name = "ValidationError"
       /\ data = last.before

\* new DataStore({aB: 2}) has thrown in a class that allows aB and whose
\* validator rejects 2
C11_Witness ==
    /\ last.op = "new"
    /\ last.property = PlainObject(<< << <<"a", "B">>, <<"number 2">> >> >>)
    /\ ~NotAllowed(<<"a", "B">>)
    /\ allowedProperties # NotSet
    /\ last.out = Throw(ValidationError(<<"Invalid color">>, NoArg, "undefined"))

\* C12: set(property, value) of a property whose normalized name is not allowed
\* throws a ValidationError with the code 'DISALLOWED_PROPERTY' and the message
\* '<class>.<normalized name> is not an allowed property name'.
C12_DisallowedPropertyCode ==
    (WasSetOne /\ NotAllowed(last.property.chars)) =>
        /\ last.out.kind = "throw"
        /\ last.out.error.name = "ValidationError"
        /\ last.out.error.message
               = NotAllowedMessage(normalizePropertyForStorage(last.property.chars))
        /\ last.out.error.code = "DISALLOWED_PROPERTY"

\* the calls of a function among the calls made
CallsOf(calls, fn) == { c \in DOMAIN calls : calls[c].fn = fn }

\* C13: when the instance has a function under validate<Name> and it throws for
\* the value, set(property, value) throws that same error, the validator was
\* called once with the value, the function under set<Name> is not called, and
\* the record is as it was before the call.
C13_ValidatorErrorPropagates ==
    (/\ WasSetOne
     /\ HasFunction(MethodName("validate", last.property))
     /\ Invoke(last.before, MethodName("validate", last.property), <<last.value>>).out.kind
            = "throw")
    => /\ last.out
              = Invoke(last.before, MethodName("validate", last.property), <<last.value>>).out
       /\ Cardinality(CallsOf(last.calls, MethodName("validate", last.property))) = 1
       /\ CallsOf(last.calls, MethodName("set", last.property)) = {}
       /\ data = last.before

\* set('a_b', 1) has thrown the Error of the validator in a class that has a setter too
C13_Witness ==
    /\ WasSetOne
    /\ last.property = String(<<"a", "_", "b">>)
    /\ methods[ValidatorName] = "mock validator"
    /\ methods[SetterName] = "mock setter"
    /\ last.out = Throw(Error(<<"mock validation error">>))
    /\ data # EmptyObject

\* C14: when the instance has a function under set<Name> and the validator, if
\* any, accepts the value, set(property, value) calls it once with the value,
\* returns what it returns and writes nothing itself: the setter of the model
\* stores nothing, so the record is as it was before the call.
C14_SetterReplacesWrite ==
    (/\ WasSetOne
     /\ Lookup(MethodName("set", last.property)) = "mock setter"
     /\ last.out.kind # "throw")
    => /\ last.out = Return(<<"mock setter return">>)
       /\ Cardinality(CallsOf(last.calls, MethodName("set", last.property))) = 1
       /\ last.calls[Len(last.calls)]
              = CallOf(MethodName("set", last.property), <<last.value>>)
       /\ data = last.before

\* set('aB', 2) has returned what the setter returned, and 2 is not stored
C14_Witness ==
    /\ WasSetOne
    /\ last.property = String(<<"a", "B">>)
    /\ last.value = <<"number 2">>
    /\ methods[SetterName] = "mock setter"
    /\ last.out = Return(<<"mock setter return">>)
    /\ Read(data, <<"a", "B">>) # <<"number 2">>

\* a normalized name is permitted by the lists of the class
Permitted(p) ==
    /\ (allowedProperties = NotSet \/ Includes(allowedProperties, p))
    /\ (disallowedProperties = NotSet \/ ~Includes(disallowedProperties, p))

\* C15: for every normalized name p and each configuration of the two lists,
\* isAllowedProperty(p) is true exactly when allowedProperties is unset or has p,
\* and disallowedProperties is unset or does not have p (always, with neither
\* list); set(property, value) throws its 'not an allowed property name' error
\* exactly for the names that are not permitted.
C15_IsAllowedProperty ==
    /\ \A p \in KnownNames : isAllowedProperty(p) <=> Permitted(p)
    /\ (allowedProperties = NotSet /\ disallowedProperties = NotSet) =>
           \A p \in KnownNames : isAllowedProperty(p)
    /\ WasSetOne =>
           ((/\ last.out.kind = "throw"
             /\ last.out.error.message
                    = NotAllowedMessage(normalizePropertyForStorage(last.property.chars)))
            <=> ~Permitted(normalizePropertyForStorage(last.property.chars)))

\* in a class with both lists, set('a_b', 1) was allowed (aB is in the allowed
\* list only) after set('a_bC', 1) was not (aBC is in both lists)
C15_Witness ==
    /\ allowedProperties # NotSet
    /\ disallowedProperties # NotSet
    /\ WasSetOne
    /\ last.property = String(<<"a", "_", "b">>)
    /\ last.out.kind = "return"
    /\ isAllowedProperty(<<"a", "B">>)
    /\ ~isAllowedProperty(<<"a", "B", "C">>)
    /\ ~isAllowedProperty(<<"a", "B", "c">>)

\* C16: set with one argument is _setMany and set with two arguments is _setOne,
\* whatever the first argument is: one argument that is not an object (a string
\* too) throws the TypeError of _setMany, and an object gives back the object;
\* two arguments of which the first is not a string (an object too) throw the
\* TypeError of _setOne, and a string without overrides gives back the value.
C16_SetDispatchesOnArity ==
    last.op = "set" =>
        /\ (last.length = 1 /\ last.property.type # "object") =>
               /\ last.out = Throw(TypeError(<<"properties must be an object">>))
               /\ data = last.before
        /\ (last.length = 1 /\ last.property.type = "object" /\ last.out.kind # "throw") =>
               last.out = ReturnObject(last.property.entries)
        /\ (last.length = 2 /\ last.property.type # "string") =>
               /\ last.out = Throw(TypeError(<<"property name must be a string">>))
               /\ data = last.before
        /\ (last.length = 2 /\ IsString(last.property) /\ last.out.kind # "throw"
                /\ NoOverride(last.property)) =>
               last.out = Return(last.value)

\* set('a_b'), with one argument, has thrown the TypeError of _setMany
C16_Witness ==
    /\ last.op = "set"
    /\ last.length = 1
    /\ last.property = String(<<"a", "_", "b">>)
    /\ last.out = Throw(TypeError(<<"properties must be an object">>))
    /\ data # EmptyObject

\* error instanceof ValidationError
IsValidationError(error) == error.name = "ValidationError"

\* C17: the validationErrors of a MultipleValidationError made from a list of
\* errors are the errors of the list that are ValidationErrors, in the order of
\* the list; no error of another kind is among them.
C17_AggregateKeepsValidationErrors ==
    aggregate # NoError =>
        /\ aggregate.name = "MultipleValidationError"
        /\ aggregate.validationErrors = SelectSeq(errors, IsValidationError)
        /\ \A i \in DOMAIN aggregate.validationErrors :
               aggregate.validationErrors[i].name = "ValidationError"

\* an aggregate was made from a ValidationError, a TypeError and another
\* ValidationError: it holds the two ValidationErrors, in that order
C17_Witness ==
    /\ aggregate # NoError
    /\ Len(errors) = 3
    /\ errors[1] = ValidationError(<<"mock validation error 2">>, NoArg, "undefined")
    /\ errors[2].name = "TypeError"
    /\ errors[3] = ValidationError(<<"mock validation error 1">>, NoArg, "undefined")
    /\ aggregate.validationErrors = <<errors[1], errors[3]>>

IsGet(call) == call.fn = <<"get">>

\* C19: serialize() returns an object that has, for every key of the record,
\* the value get(key) returns at that time (what the getter returns, when the
\* instance has a getter for the key) under
\* normalizePropertyForSerialization(key), and no other key; one call of get is
\* made for each key, in the order of the keys, and the record is not changed.
C19_SerializeUsesGet ==
    last.op = "serialize" =>
        /\ last.out.kind = "return object"
        /\ \A i \in DOMAIN last.before :
               Read(last.out.object, normalizePropertyForSerialization(last.before[i][1]))
                   = get(last.before, String(last.before[i][1])).out.value
        /\ \A i \in DOMAIN last.before :
               (last.before[i][1] = OverriddenKey /\ methods[GetterName] = "getScientificName")
               => Read(last.out.object, normalizePropertyForSerialization(OverriddenKey))
                      = <<"getter">> \o last.before[i][2]
        /\ { last.out.object[j][1] : j \in DOMAIN last.out.object }
               = { normalizePropertyForSerialization(last.before[i][1]) :
                       i \in DOMAIN last.before }
        /\ SelectSeq(last.calls, IsGet)
               = [i \in DOMAIN last.before |-> CallOf(<<"get">>, <<last.before[i][1]>>)]
        /\ data = last.before

\* serialize() has returned, for a record with aBC and aB: 2 in a class with a
\* getter for aB and names serialized with underscores, an object whose value
\* under a_b is what the getter returns
C19_Witness ==
    /\ last.op = "serialize"
    /\ serialization = "underscore"
    /\ methods[GetterName] = "getScientificName"
    /\ Keys(data) = << <<"a", "B", "C">>, <<"a", "B">> >>
    /\ Read(data, <<"a", "B">>) = <<"number 2">>
    /\ Read(last.out.object, <<"a", "_", "b">>) = <<"getter", "number 2">>

\* C20: get(property) and set(property, value) with a property that is not a
\* string throw the TypeError 'property name must be a string', and
\* set(properties) with properties that are not an object (a number, an array,
\* null, a string) throws the TypeError 'properties must be an object'; no
\* getter, setter or validator is called and the record is as it was.
C20_ArgumentsCheckedFirst ==
    /\ ((last.op = "get" \/ (last.op = "set" /\ last.length = 2))
            /\ ~IsString(last.property)) =>
           /\ last.out = Throw(TypeError(<<"property name must be a string">>))
           /\ last.calls = <<>>
           /\ data = last.before
    /\ (last.op = "set" /\ last.length = 1 /\ IsNotObject(last.property)) =>
           /\ last.out = Throw(TypeError(<<"properties must be an object">>))
           /\ last.calls = <<>>
           /\ data = last.before

\* set([]) has thrown in a class with a validator and a setter, on a store with data
C20_Witness ==
    /\ last.op = "set"
    /\ last.length = 1
    /\ last.property = NotAnObject("array")
    /\ last.out.kind = "throw"
    /\ methods[ValidatorName] = "validateColor"
    /\ methods[SetterName] = "mock setter"
    /\ data # EmptyObject

\* C27: the number in the message of a MultipleValidationError, 'N validation
\* errors', is the number of errors in its validationErrors, for every list of
\* errors it is made from.
C27_CountMatchesList ==
    aggregate # NoError =>
        aggregate.message
            = <<ToString(Len(aggregate.validationErrors)), " validation errors">>

\* the call of isAllowedProperty that _setOne makes for a property
PolicyCall(property) ==
    CallOf(<<"isAllowedProperty">>, <<normalizePropertyForStorage(property.chars)>>)

\* the calls _setOne(property, value) makes when each step follows the one
\* before it: the policy check; for a permitted name the validator the class
\* has; the setter the class has, for a value the validator has accepted
StepsOf(property, value) ==
    <<PolicyCall(property)>>
    \o (IF Permitted(normalizePropertyForStorage(property.chars))
             /\ HasFunction(MethodName("validate", property))
        THEN <<CallOf(MethodName("validate", property), <<value>>)>>
        ELSE <<>>)
    \o (IF /\ Permitted(normalizePropertyForStorage(property.chars))
           /\ Lookup(MethodName("validate", property)) = "validateColor"
                  => value \in ValidValues
           /\ HasFunction(MethodName("set", property))
        THEN <<CallOf(MethodName("set", property), <<value>>)>>
        ELSE <<>>)

\* the calls of validators and setters among the calls made
IsOverrideCall(call) == call.fn \in { ValidatorName, SetterName }

\* C23: _setOne checks the policy, then calls the validator, then calls the
\* setter or writes: the calls of set(property, value) are in that order, the
\* write is made only when no setter is called, and for a name the policy does
\* not permit the call throws with no validator and no setter called and the
\* record as it was.  In any call (a batch, the constructor), a validator or a
\* setter is called only after the policy check of a permitted name.
C23_PolicyThenValidatorThenSetter ==
    /\ WasSetOne =>
           /\ last.calls = StepsOf(last.property, last.value)
           /\ ~Permitted(normalizePropertyForStorage(last.property.chars)) =>
                  /\ last.out.kind = "throw"
                  /\ SelectSeq(last.calls, IsOverrideCall) = <<>>
                  /\ data = last.before
           /\ (last.out.kind = "return"
                   /\ ~HasFunction(MethodName("set", last.property))) =>
                  data = Write(last.before,
                               normalizePropertyForStorage(last.property.chars),
                               last.value)
           /\ HasFunction(MethodName("set", last.property)) =>
                  data = last.before
    /\ \A i \in DOMAIN last.calls :
           IsOverrideCall(last.calls[i]) =>
               \E j \in 1..(i - 1) :
                   /\ last.calls[j].fn = <<"isAllowedProperty">>
                   /\ Permitted(last.calls[j].args[1])
                   /\ \A k \in (j + 1)..(i - 1) : IsOverrideCall(last.calls[k])

\* in a class with a validator and a setter for aB and an empty list of allowed
\* properties, set('a_b', 1) has thrown after the policy check alone
C23_Witness ==
    /\ WasSetOne
    /\ last.property = String(<<"a", "_", "b">>)
    /\ last.value = <<"number 1">>
    /\ methods[ValidatorName] = "validateColor"
    /\ methods[SetterName] = "mock setter"
    /\ allowedProperties = <<>>
    /\ last.out.kind = "throw"
    /\ last.calls = <<PolicyCall(last.property)>>

\* the names normalizePropertyForStorage gives for the names of the model
NormalizedNames == { normalizePropertyForStorage(p) : p \in PropertyNames }

\* C24: after construction and any calls of set (single or batch; the setter of
\* the model writes nothing to the record), every key of the record is a name
\* that normalizePropertyForStorage gives and that the lists of the class permit.
C24_KeysNormalizedAndPermitted ==
    \A i \in DOMAIN data :
        /\ data[i][1] \in NormalizedNames
        /\ Permitted(data[i][1])
        /\ isAllowedProperty(data[i][1])

\* in a class that disallows aBC, set('a_bC', 2) has thrown on a store built by
\* the constructor and a batch set, whose record has the key aB alone
C24_Witness ==
    /\ disallowedProperties = << <<"a", "B", "C">> >>
    /\ allowedProperties = NotSet
    /\ WasSetOne
    /\ last.property = String(<<"a", "_", "b", "C">>)
    /\ last.out.kind = "throw"
    /\ Keys(data) = << <<"a", "B">> >>

\* typeof value === 'function', for what a method name of the model holds
IsFunction(value) == value \notin { "undefined", "not a function" }

\* the latest call was for a property whose get, set and validate names are
\* getAB, setAB and validateAB
OnOverridden == IsString(last.property) /\ Camelcase[last.property.chars] = <<"A", "B">>

\* C26: the overrides are looked up at every call.  Whatever was assigned to
\* getAB, setAB or validateAB since the instance was made, a call of get or set
\* made after the latest assignment goes by what the instance holds now: get
\* calls the getter if it is a function and reads the record otherwise; set
\* calls the validator if it is a function, then the setter if it is a function,
\* and writes the record otherwise.
C26_OverridesLookedUpAfresh ==
    /\ (last.op = "get" /\ OnOverridden) =>
           IF IsFunction(methods[GetterName])
           THEN /\ last.calls = <<CallOf(GetterName, <<>>)>>
                /\ last.out = Return(<<"getter">> \o Read(last.before, OverriddenKey))
           ELSE /\ last.calls = <<>>
                /\ last.out = Return(Read(last.before, OverriddenKey))
    /\ (WasSetOne /\ OnOverridden) =>
           /\ SelectSeq(last.calls, IsOverrideCall)
                  = (IF IsFunction(methods[ValidatorName])
                     THEN <<CallOf(ValidatorName, <<last.value>>)>> ELSE <<>>)
                    \o (IF /\ IsFunction(methods[SetterName])
                           /\ IsFunction(methods[ValidatorName]) => last.value \in ValidValues
                        THEN <<CallOf(SetterName, <<last.value>>)>> ELSE <<>>)
           /\ data = IF /\ ~IsFunction(methods[SetterName])
                        /\ IsFunction(methods[ValidatorName]) => last.value \in ValidValues
                     THEN Write(last.before, OverriddenKey, last.value)
                     ELSE last.before

\* getAB, a function before, was replaced by a value that is not a function, and
\* the get('aB') made after that has read the record
C26_Witness ==
    /\ assigned = [name |-> GetterName, value |-> "not a function",
                   was |-> "getScientificName"]
    /\ last.op = "get"
    /\ last.property = String(<<"a", "B">>)
    /\ HasKey(data, OverriddenKey)
    /\ last.calls = <<>>
    /\ last.out = Return(Read(data, OverriddenKey))

\* the promise the latest call of the asynchronous variant has returned
Returned == promises[CHOOSE i \in DOMAIN promises : PromiseRef(i) = last.out.value]

\* the latest call was get(property) of the asynchronous variant for a property
\* whose getter is a function
WasGetWithGetter ==
    /\ promises # <<>>
    /\ last.op = "get"
    /\ OnOverridden
    /\ IsFunction(methods[GetterName])

\* C21: in the asynchronous variant, the promise of get(property) for a property
\* with an asynchronous getter waits for the promise of the getter: it is pending
\* as long as the promise of the getter is, and once settled it is settled as the
\* promise of the getter is, fulfilled with the value the getter resolved with
\* (not with a promise, not with what the record holds) or rejected with its error.
C21_GetAwaitsGetter ==
    WasGetWithGetter =>
        /\ Returned.of = "get"
        /\ Len(Returned.on) = 1
        /\ promises[Returned.on[1]].of = "getter"
        /\ ~Settled(promises[Returned.on[1]]) => ~Settled(Returned)
        /\ Settled(Returned) =>
               /\ Returned.state = promises[Returned.on[1]].state
               /\ Returned.out = promises[Returned.on[1]].out
        /\ Returned.state = "fulfilled" =>
               /\ Returned.out = Return(<<"mock value 1">>)
               /\ Returned.out.value # Read(data, OverriddenKey)

\* get('a_b') of a class with an asynchronous getter, on a record that holds a
\* value under aB, has been fulfilled with the value of the getter
C21_Witness ==
    /\ WasGetWithGetter
    /\ methods[GetterName] = "async getter"
    /\ last.property = String(<<"a", "_", "b">>)
    /\ Read(data, OverriddenKey) = <<"number 1">>
    /\ Returned.state = "fulfilled"
    /\ Returned.out = Return(<<"mock value 1">>)

\* the latest call was set(properties) of the asynchronous variant with an object
WasAsyncBatch == promises # <<>> /\ WasSetMany

\* a call of _setOne
IsSetOne(call) == call.fn = <<"_setOne">>

\* the promise _setOne has returned for the k-th entry of the latest batch
EntryPromise(k) == promises[Returned.on[k]]

\* C22: in the asynchronous variant, _setMany has called _setOne for every entry,
\* in the order of the entries, when it returns its promise, which is pending
\* then: the setter of each entry that has one has been called.  The batch is
\* rejected exactly when the promise of an entry is rejected, with the error of
\* that entry; nothing stops the other entries: a setter at work can finish
\* whatever the state of the batch, and when its promise is fulfilled its write
\* is in the record.
C22_BatchStartsEveryEntry ==
    /\ WasAsyncBatch =>
           /\ Returned.of = "_setMany"
           /\ Len(Returned.on) = Len(last.property.entries)
           /\ \A k \in DOMAIN Returned.on : EntryPromise(k).of = "_setOne"
           /\ SelectSeq(last.calls, IsSetOne)
                  = [k \in DOMAIN last.property.entries |->
                        CallOf(<<"_setOne">>, last.property.entries[k])]
           /\ \A k \in DOMAIN last.property.entries :
                  HasFunction(MethodName("set", String(last.property.entries[k][1]))) =>
                      /\ Len(EntryPromise(k).on) = 1
                      /\ promises[EntryPromise(k).on[1]].of = "setter"
                      /\ promises[EntryPromise(k).on[1]].value = last.property.entries[k][2]
           /\ Returned.state = "rejected" =>
                  \E k \in DOMAIN Returned.on :
                      /\ EntryPromise(k).state = "rejected"
                      /\ Returned.out = EntryPromise(k).out
           /\ Returned.state = "fulfilled" =>
                  /\ \A k \in DOMAIN Returned.on : EntryPromise(k).state = "fulfilled"
                  /\ Returned.out = ReturnObject(last.property.entries)
    /\ \A i \in DOMAIN promises :
           (promises[i].of = "setter" /\ promises[i].state = "fulfilled") =>
               Read(data, promises[i].key) = promises[i].value
    /\ \A i \in DOMAIN promises :
           (AtWork(promises[i]) /\ \A j \in DOMAIN promises : ~Ready(promises, j)) =>
               ENABLED SettleSetter

\* set({a_b: 2, aB: 1}) of a class with an asynchronous setter for both
\* entries: the batch is rejected with the error of the setter of the first
\* entry, and the setter of the second entry has finished and written its value
C22_Witness ==
    /\ WasAsyncBatch
    /\ methods[SetterName] = "async setter"
    /\ last.property.entries
           = << << <<"a", "_", "b">>, <<"number 2">> >>, << <<"a", "B">>, <<"number 1">> >> >>
    /\ Returned.state = "rejected"
    /\ Returned.out = Throw(SetterError)
    /\ EntryPromise(1).state = "rejected"
    /\ EntryPromise(2).state = "fulfilled"
    /\ data = << <<OverriddenKey, <<"number 1">> >> >>

\* the entry is the last of the batch that is written under its key
LastUnderKey(entries, k) ==
    \A j \in DOMAIN entries :
        normalizePropertyForStorage(entries[j][1]) = normalizePropertyForStorage(entries[k][1])
        => j <= k

\* a get(property) made now, in the asynchronous variant, returns a promise that
\* is already fulfilled with the value
GetObserves(property, value) ==
    LET got == async_get(data, <<>>, property).promises
    IN  got[Len(got)] = Fulfilled("get", value)

\* C28: in the asynchronous variant, the write of a set for a property without a
\* setter is in the record when the call has returned its promise, whether that
\* promise is settled or not: from then on, until the next call, the record
\* holds the value, and a get made without awaiting the set returns a promise
\* fulfilled with it.  So for set(property, value), and for each entry of
\* set(properties) that is the last one written under its key.
C28_DefaultWriteAppliedAtReturn ==
    /\ (promises # <<>> /\ WasSetOne /\ ~HasFunction(MethodName("set", last.property))) =>
           /\ Returned = Fulfilled("_setOne", last.value)
           /\ Read(data, normalizePropertyForStorage(last.property.chars)) = last.value
           /\ ~HasFunction(MethodName("get", last.property)) =>
                  GetObserves(last.property, last.value)
    /\ WasAsyncBatch =>
           \A k \in DOMAIN last.property.entries :
               (/\ ~HasFunction(MethodName("set", String(last.property.entries[k][1])))
                /\ LastUnderKey(last.property.entries, k)) =>
                   /\ EntryPromise(k) = Fulfilled("_setOne", last.property.entries[k][2])
                   /\ Read(data, normalizePropertyForStorage(last.property.entries[k][1]))
                          = last.property.entries[k][2]
                   /\ ~HasFunction(MethodName("get", String(last.property.entries[k][1]))) =>
                          GetObserves(String(last.property.entries[k][1]),
                                      last.property.entries[k][2])

\* set({a_bC: 2, aB: 1}) has returned a promise that is still pending, and the
\* record holds both values
C28_Witness ==
    /\ WasAsyncBatch
    /\ methods = NoMethods
    /\ last.property.entries
           = << << <<"a", "_", "b", "C">>, <<"number 2">> >>, << <<"a", "B">>, <<"number 1">> >> >>
    /\ Returned.state = "pending"
    /\ Read(data, <<"a", "B", "C">>) = <<"number 2">>
    /\ Read(data, <<"a", "B">>) = <<"number 1">>
    /\ GetObserves(String(<<"a", "_", "b">>), <<"number 1">>)

\* two entries of the batch, the second after the first, are written under one key
Collide(entries, i, j) ==
    /\ i < j
    /\ normalizePropertyForStorage(entries[i][1]) = normalizePropertyForStorage(entries[j][1])

\* C29: when two keys of one batch set normalize to the same storage key, and no
\* override is found for them, _setOne is called for the entries in the order of
\* the object, and after the batch the record holds, in a single entry under that
\* key, the value of the later entry.
C29_LaterEntryWins ==
    (WasSetMany /\ last.out.kind # "throw") =>
        \A i, j \in DOMAIN last.property.entries :
            (/\ Collide(last.property.entries, i, j)
             /\ LastUnderKey(last.property.entries, j)
             /\ NoOverride(String(last.property.entries[i][1]))
             /\ NoOverride(String(last.property.entries[j][1]))) =>
                /\ Read(data, normalizePropertyForStorage(last.property.entries[j][1]))
                       = last.property.entries[j][2]
                /\ Count(data, normalizePropertyForStorage(last.property.entries[j][1])) = 1
                /\ SelectSeq(last.calls, IsSetOne)
                       = [k \in DOMAIN last.property.entries |->
                             CallOf(<<"_setOne">>, last.property.entries[k])]

\* set({aB: 1, a_b: 2}) has returned on a store without overrides: the record
\* holds 2 under aB
C29_Witness ==
    /\ WasSetMany
    /\ methods = NoMethods
    /\ last.property.entries
           = << << <<"a", "B">>, <<"number 1">> >>, << <<"a", "_", "b">>, <<"number 2">> >> >>
    /\ last.out.kind # "throw"
    /\ Read(data, OverriddenKey) = <<"number 2">>
    /\ Count(data, OverriddenKey) = 1

\* the latest call has made a store, with the constructor of the asynchronous
\* variant: from an object, or from the raw data of a store
WasConstructed ==
    /\ last.op = "new"
    /\ last.out.kind # "throw"
    /\ stores.data # <<>>
    /\ last.property.type = "DataStore" => last.calls = <<CallOf(<<"raw">>, <<>>)>>

\* the entries the constructor was given: those of the object, or those of the
\* record of the store it was given
Given ==
    IF last.property.type = "DataStore"
    THEN stores.records[raw(stores, stores.from[stores.called])]
    ELSE last.property.entries

\* the record of the store the latest call has made or was made on
Record == stores.records[raw(stores, stores.called)]

\* C25: the constructor stores every entry it is given under the name
\* normalizePropertyForStorage gives for its key, and nothing else; when several
\* keys are given one name, the record has a single entry for it, with the value
\* of the last of these keys in the order of the entries.
C25_ConstructorNormalizesKeys ==
    WasConstructed =>
        /\ { Record[i][1] : i \in DOMAIN Record }
               = { normalizePropertyForStorage(Given[k][1]) : k \in DOMAIN Given }
        /\ \A i \in DOMAIN Record : Count(Record, Record[i][1]) = 1
        /\ \A k \in DOMAIN Given :
               LastUnderKey(Given, k) =>
                   Read(Record, normalizePropertyForStorage(Given[k][1])) = Given[k][2]

\* new DataStore({a_b: 1, aB: 2}) has made a store whose record is {aB: 2}
C25_Witness ==
    /\ WasConstructed
    /\ last.property.type = "object"
    /\ last.property.entries
           = << << <<"a", "_", "b">>, <<"number 1">> >>, << <<"a", "B">>, <<"number 2">> >> >>
    /\ Record = << <<OverriddenKey, <<"number 2">> >> >>

\* what get returns on a store, for each spelling: what its promise is settled with
Gets(st, s) ==
    [p \in AsyncStrings |-> async_get(st.records[raw(st, s)], <<>>, p).promises[1].out]

\* C30: a store made from another store has a record of its own: a set on a
\* store leaves what get returns on every other store as it was, whichever of
\* the two was made from the other.
C30_StoresIndependent ==
    [][(stores'.data = stores.data /\ last'.op = "set") =>
           \A s \in DOMAIN stores.data :
               s # stores'.called => Gets(stores', s) = Gets(stores, s)]_vars

\* the second store was made from the first when the first held 1 under aB; a
\* set on the first has written 2, and the second still holds 1
C30_Witness ==
    /\ Len(stores.data) >= 2
    /\ stores.from[2] = 1
    /\ last.op = "set"
    /\ stores.called = 1
    /\ Read(stores.records[raw(stores, 1)], OverriddenKey) = <<"number 2">>
    /\ Read(stores.records[raw(stores, 2)], OverriddenKey) = <<"number 1">>

=============================================================================
